---- MODULE Spec2Model ----
(***************************************************************************)
(* AppTimeTracker (src/main.py): a poll loop that watches a fixed list of  *)
(* process names, keeps the start of every open run in _app_started_time,  *)
(* appends one row to the time_tracking table when a run ends, and a       *)
(* signal handler (_exit) that closes out the open runs on SIGINT,         *)
(* SIGTERM or SIGQUIT.                                                     *)
(*                                                                         *)
(* The main program and the handler run on one Python thread: a handler    *)
(* frame is pushed between two steps of whatever is running (the main      *)
(* program or an earlier handler frame) and the interrupted code resumes   *)
(* only if the frame returns, which _exit never does.                      *)
(***************************************************************************)
EXTENDS Integers, Sequences, FiniteSets, TLC

(* ---------------------------- bounds ----------------------------------- *)

\* Presence observations (iterations of the inner for loop) that are
\* explored: two ticks of the two apps and the first app of a third tick.
MaxObservations == 5

\* Termination signals delivered in one run of Spec; SpecRepeatedSignals
\* delivers one more.
MaxSignals == 1

\* Backward steps of the wall clock (DST fall-back, manual or NTP reset).
MaxClockSteps == 1

\* Resolution of the model's timestamps: clock units per second.
UnitsPerSecond == 2

(* ------------------------ program constants ---------------------------- *)

\* The first two of the seven names of TRACKED_APPS, in list order.
TRACKED_APPS == <<"code", "firefox">>

DEFAULT_SLEEP_TIME == 60

\* datetime.timedelta keeps (days, seconds, microseconds) with
\* 0 <= seconds < 24*60*60; .seconds reads the middle field.
SecondsPerDay == 24 * 60 * 60

UnitsPerDay == SecondsPerDay * UnitsPerSecond

\* Values of --sleep-time that are explored (seconds).
SleepTimes == {DEFAULT_SLEEP_TIME, SecondsPerDay}

\* Size of one backward step of the wall clock (one hour, in clock units).
ClockStepBack == 60 * 60 * UnitsPerSecond

\* The wall clock at program start (midnight of day 1, in clock units).
ClockStart == UnitsPerDay

Apps == {TRACKED_APPS[i] : i \in DOMAIN TRACKED_APPS}

\* Python's None: no timestamp, no exit status yet.
None == 0 - 1

\* No exception has ended the process.
NoCall == ""

\* The calls whose exception nothing catches.
GetAppTimeSumCall == "get_app_time_sum"
GetMappingCall == "get_app_name_id_mapping"
PidOfCall == "pid_of"
LookupCall == "app_name_id_mapping[app]"
InsertExecuteCall == "insert: execute"
InsertCommitCall == "insert: commit"

\* args.hour_report_for (type=str, line 23) when the option is not given;
\* Python's None, kept apart from every string the option can carry.
NotGiven == "<None>"

\* Values of --hour-report-for that are explored: absent, the empty string,
\* a tracked name.
HourReportForValues == {NotGiven, "", "code"}

\* bool(value) of an Optional[str], as `elif args.hour_report_for:` tests it.
Truthy(value) == value # NotGiven /\ value # ""

APPS_TABLE_NAME == "apps"
TIME_TRACKING_TABLE_NAME == "time_tracking"

(* --------------------------- pure helpers ------------------------------ *)

\* datetime.isoformat(): "<date>T<time of day>", modelled as the pair.
encode_time(time) == <<time \div UnitsPerDay, time % UnitsPerDay>>

\* datetime.fromisoformat()
decode_time(time) == time[1] * UnitsPerDay + time[2]

\* (now - start).total_seconds() cut to whole seconds: signed, not reduced
\* to the seconds field.
TimedeltaTotalSeconds(now, start) == (now - start) \div UnitsPerSecond

\* (now - start).seconds: the seconds field of the normalised timedelta.
TimedeltaSeconds(now, start) == ((now - start) \div UnitsPerSecond) % SecondsPerDay

\* dict.get(key) on an insertion-ordered dict kept as a sequence of items.
DictGet(d, key) ==
    IF \E i \in DOMAIN d : d[i].app = key
    THEN (d[CHOOSE i \in DOMAIN d : d[i].app = key]).start
    ELSE None

\* d[key] = value for a key that is not in the dict: appended last.
DictSet(d, key, value) == Append(d, [app |-> key, start |-> value])

\* del d[key] mistaken for d.clear(): every item goes.
DictDelClears(d, key) == <<>>

\* del d[key]
DictDel(d, key) == SelectSeq(d, LAMBDA item : item.app # key)

DictKeys(d) == {d[i].app : i \in DOMAIN d}

\* AppsTable.get_app_name_id_mapping: name -> ROWID of the rows of `apps`.
get_app_name_id_mapping(rows) ==
    [name \in {rows[i] : i \in DOMAIN rows} |->
        CHOOSE i \in DOMAIN rows : rows[i] = name]

\* The row that both the poll loop and _exit hand to time_tracking_table.insert.
SessionRow(mapping, app, start, now) ==
    [app_id     |-> mapping[app],
     start_time |-> encode_time(start),
     end_time   |-> encode_time(now),
     seconds    |-> TimedeltaSeconds(now, start)]

(* ------------------------------ state ---------------------------------- *)

VARIABLES
    args,                \* parsed command line: the one-shot flags and sleep_time
    pc,                  \* position of the main program
    tick,                \* poll-loop iterations completed
    appIdx,              \* index into TRACKED_APPS of the loop variable `app`
    now,                 \* the main loop's local `now`
    _app_started_time,   \* LiveState: the open runs, in insertion order
    app_name_id_mapping, \* the main program's copy of the registry (line 189)
    tables,              \* names of the tables that exist (sqlite_master)
    appsRows,            \* rows of table `apps`: the names, ROWID = position
    committed,           \* committed rows of time_tracking
    pending,             \* rows inserted in the open transaction
    connOpen,            \* the sqlite connection has not been closed
    clock,               \* the wall clock read by datetime.now()
    clockSteps,          \* backward clock steps so far
    handlers,            \* stack of running _exit frames, innermost last
    signals,             \* signals delivered so far
    exitStatus,          \* None while running, else the process's exit status
    raised,              \* the call whose exception ended the process, or NoCall
    observed             \* per app, the log of (running, now) observations

vars == <<args, pc, tick, appIdx, now, _app_started_time, app_name_id_mapping,
          tables, appsRows, committed, pending, connOpen, clock,
          clockSteps, handlers, signals, exitStatus, raised, observed>>

dbVars == <<tables, appsRows, committed, pending, connOpen>>
loopVars == <<tick, appIdx, now, _app_started_time, app_name_id_mapping, observed>>

app == TRACKED_APPS[appIdx]

\* Everything the store holds for the connection: committed rows, then the
\* rows of the open transaction.
Appended == committed \o pending

Running == exitStatus = None
MainRuns == Running /\ handlers = <<>>

\* Lines 151-182: the first one-shot flag that is set decides the mode.
FirstPc(a) ==
    IF a.clear_db THEN "clear_apps"
    ELSE IF a.report \/ a.hour_report \/ Truthy(a.hour_report_for) THEN "report"
    ELSE "create_apps"

\* One of --clear-db, --report, --hour-report, --hour-report-for is on the
\* command line.
OneShotRequested ==
    \/ args.clear_db
    \/ args.report
    \/ args.hour_report
    \/ args.hour_report_for # NotGiven

Init ==
    /\ args \in [clear_db : BOOLEAN, report : BOOLEAN, hour_report : BOOLEAN,
                 hour_report_for : HourReportForValues, sleep_time : SleepTimes]
    \* --sleep-time is explored on the command lines without a one-shot option
    /\ OneShotRequested => args.sleep_time = DEFAULT_SLEEP_TIME
    /\ pc = FirstPc(args)
    /\ tick = 0
    /\ appIdx = 1
    /\ now = None
    /\ _app_started_time = <<>>
    /\ app_name_id_mapping = None
    \* timetracker.db is new, or was left by an earlier tracking run
    /\ \/ tables = {} /\ appsRows = <<>>
       \/ tables = {APPS_TABLE_NAME, TIME_TRACKING_TABLE_NAME} /\ appsRows = TRACKED_APPS
    /\ committed = <<>>
    /\ pending = <<>>
    /\ connOpen = TRUE
    /\ clock = ClockStart
    /\ clockSteps = 0
    /\ handlers = <<>>
    /\ signals = 0
    /\ exitStatus = None
    /\ raised = NoCall
    /\ observed = [a \in Apps |-> <<>>]

(* ------------------- main program: one-shot modes ---------------------- *)

\* An exception of the main program that nothing catches: traceback, exit
\* status 1.
Uncaught(call) ==
    /\ exitStatus' = 1
    /\ raised' = call
    /\ pc' = "done"

\* Line 153: apps_table.drop_table_if_exists(cur)
ClearApps ==
    /\ MainRuns /\ pc = "clear_apps"
    /\ tables' = tables \ {APPS_TABLE_NAME}
    /\ appsRows' = <<>>
    /\ pc' = "clear_tt"
    /\ UNCHANGED <<args, loopVars, committed, pending, connOpen,
                   clock, clockSteps, handlers, signals, exitStatus, raised>>

\* Line 154: time_tracking_table.drop_table_if_exists(cur)
ClearTimeTracking ==
    /\ MainRuns /\ pc = "clear_tt"
    /\ tables' = tables \ {TIME_TRACKING_TABLE_NAME}
    /\ committed' = <<>>
    /\ pc' = "exit"
    /\ UNCHANGED <<args, loopVars, appsRows, pending, connOpen,
                   clock, clockSteps, handlers, signals, exitStatus, raised>>

\* Lines 157-182: the three report modes run get_app_time_sum, which raises
\* sqlite3.OperationalError when a table of the join does not exist.
Report ==
    /\ MainRuns /\ pc = "report"
    /\ IF {APPS_TABLE_NAME, TIME_TRACKING_TABLE_NAME} \subseteq tables
       THEN pc' = "exit" /\ UNCHANGED <<exitStatus, raised>>
       ELSE Uncaught(GetAppTimeSumCall)
    /\ UNCHANGED <<args, loopVars, dbVars, clock, clockSteps, handlers, signals>>

\* Lines 155, 166, 173, 182: sys.exit(0) of a one-shot mode.
OneShotExit ==
    /\ MainRuns /\ pc = "exit"
    /\ exitStatus' = 0
    /\ pc' = "done"
    /\ UNCHANGED <<args, loopVars, dbVars, clock, clockSteps, handlers, signals, raised>>

(* ------------------- main program: tracking startup -------------------- *)

\* Line 184: apps_table.create_table_if_not_exists(cur)
CreateApps ==
    /\ MainRuns /\ pc = "create_apps"
    /\ tables' = tables \cup {APPS_TABLE_NAME}
    /\ pc' = "create_tt"
    /\ UNCHANGED <<args, loopVars, appsRows, committed, pending, connOpen,
                   clock, clockSteps, handlers, signals, exitStatus, raised>>

\* Line 185: time_tracking_table.create_table_if_not_exists(cur)
CreateTimeTracking ==
    /\ MainRuns /\ pc = "create_tt"
    /\ tables' = tables \cup {TIME_TRACKING_TABLE_NAME}
    /\ pc' = "populate"
    /\ UNCHANGED <<args, loopVars, appsRows, committed, pending, connOpen,
                   clock, clockSteps, handlers, signals, exitStatus, raised>>

\* populate_apps_table_if_needed without its insert: the registry keeps the
\* rows it had.
PopulateAppsWithoutInsert ==
    /\ MainRuns /\ pc = "populate"
    /\ IF appIdx < Len(TRACKED_APPS)
       THEN appIdx' = appIdx + 1 /\ pc' = pc
       ELSE appIdx' = 1 /\ pc' = "get_mapping"
    /\ UNCHANGED <<args, tick, now, _app_started_time, app_name_id_mapping, observed,
                   dbVars, clock, clockSteps, handlers, signals, exitStatus, raised>>

\* Lines 104-109: one iteration of populate_apps_table_if_needed.  After the
\* last one, populate_time_tracking_table_if_needed (111-114) finds the table.
PopulateApps ==
    /\ MainRuns /\ pc = "populate"
    /\ appsRows' = IF \E i \in DOMAIN appsRows : appsRows[i] = app
                   THEN appsRows
                   ELSE Append(appsRows, app)
    /\ IF appIdx < Len(TRACKED_APPS)
       THEN appIdx' = appIdx + 1 /\ pc' = pc
       ELSE appIdx' = 1 /\ pc' = "get_mapping"
    /\ UNCHANGED <<args, tick, now, _app_started_time, app_name_id_mapping, observed,
                   tables, committed, pending, connOpen,
                   clock, clockSteps, handlers, signals, exitStatus, raised>>

\* Line 189: app_name_id_mapping = apps_table.get_app_name_id_mapping(cur)
GetMapping ==
    /\ MainRuns /\ pc = "get_mapping"
    /\ app_name_id_mapping' = get_app_name_id_mapping(appsRows)
    /\ pc' = "capture"
    /\ UNCHANGED <<args, tick, appIdx, now, _app_started_time, observed, dbVars,
                   clock, clockSteps, handlers, signals, exitStatus, raised>>

(* ----------------------- main program: poll loop ----------------------- *)

\* The value of app_running(app) in the iteration under way.
IsRunning == observed[app][Len(observed[app])].running

\* The end of one iteration of `for app in TRACKED_APPS`: the next app, or
\* line 233 once the list is exhausted.
NextApp ==
    IF appIdx < Len(TRACKED_APPS)
    THEN appIdx' = appIdx + 1 /\ pc' = "capture"
    ELSE appIdx' = 1 /\ pc' = "sleep"

\* Iterations of the inner for loop begun so far.
IterationsStarted == tick * Len(TRACKED_APPS) + (appIdx - 1)

\* now = datetime.datetime.now() moved out of the for loop: read once per
\* tick, before the first app.
CaptureOncePerTick ==
    /\ MainRuns /\ pc = "capture"
    /\ IterationsStarted < MaxObservations
    /\ now' = IF appIdx = 1 THEN clock ELSE now
    /\ clock' = clock + 1
    /\ pc' = "observe"
    /\ UNCHANGED <<args, tick, appIdx, _app_started_time, app_name_id_mapping,
                   observed, dbVars, clockSteps, handlers, signals, exitStatus, raised>>

\* Line 195: now = datetime.datetime.now()
Capture ==
    /\ MainRuns /\ pc = "capture"
    /\ IterationsStarted < MaxObservations
    /\ now' = clock
    /\ clock' = clock + 1
    /\ pc' = "observe"
    /\ UNCHANGED <<args, tick, appIdx, _app_started_time, app_name_id_mapping,
                   observed, dbVars, clockSteps, handlers, signals, exitStatus, raised>>

\* Line 90: subprocess.run raises OSError when the shell of `pidof -s` cannot
\* be started (fork or exec fails).  Neither pid_of, app_running nor the
\* poll loop catches it.
ObserveRaises ==
    /\ MainRuns /\ pc = "observe"
    /\ Uncaught(PidOfCall)
    /\ UNCHANGED <<args, loopVars, dbVars, clock, clockSteps, handlers, signals>>

\* Line 197: app_running(app), the presence oracle's answer for this tick:
\* pidof returned 0 and a pid (running), or anything else (pid_of gives None).
Observe ==
    /\ MainRuns /\ pc = "observe"
    /\ \E running \in BOOLEAN :
         observed' = [observed EXCEPT
                        ![app] = Append(@, [running |-> running, now |-> now])]
    /\ pc' = "match"
    /\ UNCHANGED <<args, tick, appIdx, now, _app_started_time, app_name_id_mapping,
                   dbVars, clock, clockSteps, handlers, signals, exitStatus, raised>>

\* Lines 199-203: running, no recorded start.
JustStarted ==
    /\ MainRuns /\ pc = "match"
    /\ IsRunning /\ DictGet(_app_started_time, app) = None
    /\ _app_started_time' = DictSet(_app_started_time, app, now)
    /\ NextApp
    /\ UNCHANGED <<args, tick, now, app_name_id_mapping, observed, dbVars,
                   clock, clockSteps, handlers, signals, exitStatus, raised>>

\* StillRunning with a slip: the recorded start is overwritten by this
\* tick's timestamp.
StillRunningResetsStart ==
    /\ MainRuns /\ pc = "match"
    /\ IsRunning /\ DictGet(_app_started_time, app) # None
    /\ _app_started_time' = [i \in DOMAIN _app_started_time |->
                               IF _app_started_time[i].app = app
                               THEN [app |-> app, start |-> now]
                               ELSE _app_started_time[i]]
    /\ NextApp
    /\ UNCHANGED <<args, tick, now, app_name_id_mapping, observed, dbVars,
                   clock, clockSteps, handlers, signals, exitStatus, raised>>

\* Lines 205-207: running, start recorded.
StillRunning ==
    /\ MainRuns /\ pc = "match"
    /\ IsRunning /\ DictGet(_app_started_time, app) # None
    /\ NextApp
    /\ UNCHANGED <<args, tick, now, _app_started_time, app_name_id_mapping, observed,
                   dbVars, clock, clockSteps, handlers, signals, exitStatus, raised>>

\* StillNotRunning with a slip: the absent app gets a session of this tick.
StillNotRunningInserts ==
    /\ MainRuns /\ pc = "match"
    /\ ~IsRunning /\ DictGet(_app_started_time, app) = None
    /\ pending' = Append(pending, SessionRow(app_name_id_mapping, app, now, now))
    /\ pc' = "insert_commit"
    /\ UNCHANGED <<args, loopVars, tables, appsRows, committed, connOpen,
                   clock, clockSteps, handlers, signals, exitStatus, raised>>

\* Lines 210-214: not running, no recorded start.
StillNotRunning ==
    /\ MainRuns /\ pc = "match"
    /\ ~IsRunning /\ DictGet(_app_started_time, app) = None
    /\ NextApp
    /\ UNCHANGED <<args, tick, now, _app_started_time, app_name_id_mapping, observed,
                   dbVars, clock, clockSteps, handlers, signals, exitStatus, raised>>

\* Lines 216-226 up to the cur.execute of SQLiteTable.insert (line 56):
\* not running, start recorded.
StoppedInsert ==
    /\ MainRuns /\ pc = "match"
    /\ ~IsRunning /\ DictGet(_app_started_time, app) # None
    /\ IF app \in DOMAIN app_name_id_mapping
       THEN /\ pending' = Append(pending,
                                 SessionRow(app_name_id_mapping, app,
                                            DictGet(_app_started_time, app), now))
            /\ pc' = "insert_commit"
            /\ UNCHANGED <<exitStatus, raised>>
       ELSE \* line 223: KeyError
            Uncaught(LookupCall) /\ UNCHANGED pending
    /\ UNCHANGED <<args, loopVars, tables, appsRows, committed, connOpen,
                   clock, clockSteps, handlers, signals>>

\* StoppedInsertRaises inside a try/except that notes the error and carries
\* on with the del.
StoppedInsertRaisesCaught ==
    /\ MainRuns /\ pc = "match"
    /\ ~IsRunning /\ DictGet(_app_started_time, app) # None
    /\ app \in DOMAIN app_name_id_mapping
    /\ raised' = InsertExecuteCall
    /\ pc' = "delete"
    /\ UNCHANGED <<args, loopVars, dbVars, clock, clockSteps, handlers, signals,
                   exitStatus>>

\* Line 56 raises sqlite3.Error (disk full, database locked by another
\* process, I/O error): no row is inserted and the exception leaves the loop.
StoppedInsertRaises ==
    /\ MainRuns /\ pc = "match"
    /\ ~IsRunning /\ DictGet(_app_started_time, app) # None
    /\ app \in DOMAIN app_name_id_mapping
    /\ Uncaught(InsertExecuteCall)
    /\ UNCHANGED <<args, loopVars, dbVars, clock, clockSteps, handlers, signals>>

\* Line 57 raises sqlite3.Error: the inserted row stays in the open
\* transaction, which is rolled back when the process ends.
StoppedCommitRaises ==
    /\ MainRuns /\ pc = "insert_commit"
    /\ pending' = <<>>
    /\ Uncaught(InsertCommitCall)
    /\ UNCHANGED <<args, loopVars, tables, appsRows, committed, connOpen,
                   clock, clockSteps, handlers, signals>>

\* Line 57: cur.connection.commit() of SQLiteTable.insert.
StoppedCommit ==
    /\ MainRuns /\ pc = "insert_commit"
    /\ committed' = committed \o pending
    /\ pending' = <<>>
    /\ pc' = "delete"
    /\ UNCHANGED <<args, loopVars, tables, appsRows, connOpen,
                   clock, clockSteps, handlers, signals, exitStatus, raised>>

\* Lines 228-230: a second commit with nothing to commit, then
\* del _app_started_time[app].
StoppedDelete ==
    /\ MainRuns /\ pc = "delete"
    /\ _app_started_time' = DictDel(_app_started_time, app)
    /\ NextApp
    /\ UNCHANGED <<args, tick, now, app_name_id_mapping, observed, dbVars,
                   clock, clockSteps, handlers, signals, exitStatus, raised>>

\* Lines 233-234: sleep(args.sleep_time), then the next tick.
Sleep ==
    /\ MainRuns /\ pc = "sleep"
    /\ tick' = tick + 1
    /\ clock' = clock + args.sleep_time * UnitsPerSecond
    /\ pc' = "capture"
    /\ UNCHANGED <<args, appIdx, now, _app_started_time, app_name_id_mapping,
                   observed, dbVars, clockSteps, handlers, signals, exitStatus, raised>>

(* ----------------------------- environment ----------------------------- *)

\* The next step of the running code is a datetime.now().
AboutToReadClock ==
    IF handlers = <<>>
    THEN pc = "capture"
    ELSE /\ handlers[Len(handlers)].pc = "iter"
         /\ handlers[Len(handlers)].idx <= Len(_app_started_time)

\* datetime.now() is local wall-clock time: it can be set back while the
\* tracker runs.  The clock is only ever read, so a step back at any moment
\* is the same as one just before the next read, where it is taken.
ClockSetBack ==
    /\ Running /\ AboutToReadClock
    /\ clockSteps < MaxClockSteps
    /\ clockSteps' = clockSteps + 1
    /\ clock' = clock - ClockStepBack
    /\ UNCHANGED <<args, pc, loopVars, dbVars, handlers, signals, exitStatus, raised>>

\* SIGINT, SIGTERM or SIGQUIT (lines 140-143): Python runs _exit in a new
\* frame on top of whatever is executing, an earlier _exit frame included.
SignalWithin(limit) ==
    /\ Running
    /\ signals < limit
    /\ signals' = signals + 1
    /\ handlers' = Append(handlers, [pc |-> "map", map |-> None, idx |-> 1, now |-> None])
    /\ UNCHANGED <<args, pc, loopVars, dbVars, clock, clockSteps, exitStatus, raised>>

Signal == SignalWithin(MaxSignals)

RepeatedSignal == SignalWithin(MaxSignals + 1)

(* ------------------------- the handler, _exit -------------------------- *)

Top == handlers[Len(handlers)]

SetTop(frame) == [handlers EXCEPT ![Len(handlers)] = frame]

HandlerRuns == Running /\ handlers # <<>>

\* An exception that leaves _exit: it propagates through the interrupted
\* frames, which catch nothing: traceback, exit status 1.
RaisedInHandler(call) ==
    /\ exitStatus' = 1
    /\ raised' = call

\* Lines 118-119: the registry is read through _cursor_to_close.  The SELECT
\* raises when the connection is closed or table `apps` does not exist, and
\* the exception leaves the handler: exit status 1.
ExitMapping ==
    /\ HandlerRuns /\ Top.pc = "map"
    /\ IF ~connOpen \/ APPS_TABLE_NAME \notin tables
       THEN RaisedInHandler(GetMappingCall) /\ UNCHANGED handlers
       ELSE /\ handlers' = SetTop([Top EXCEPT
                                     !.map = get_app_name_id_mapping(appsRows),
                                     !.pc = "iter"])
            /\ UNCHANGED <<exitStatus, raised>>
    /\ UNCHANGED <<args, pc, loopVars, dbVars, clock, clockSteps, signals>>

\* Lines 120-122: the next item of _app_started_time.items() and its `now`,
\* or line 135 when the items are exhausted.
ExitNextItem ==
    /\ HandlerRuns /\ Top.pc = "iter"
    /\ IF Top.idx <= Len(_app_started_time)
       THEN /\ handlers' = SetTop([Top EXCEPT !.now = clock, !.pc = "insert"])
            /\ clock' = clock + 1
       ELSE /\ handlers' = SetTop([Top EXCEPT !.pc = "close"])
            /\ UNCHANGED clock
    /\ UNCHANGED <<args, pc, loopVars, dbVars, clockSteps, signals, exitStatus, raised>>

\* Lines 123-129 up to the cur.execute of SQLiteTable.insert (line 56).
ExitInsert ==
    /\ HandlerRuns /\ Top.pc = "insert"
    /\ IF _app_started_time[Top.idx].app \in DOMAIN Top.map
       THEN /\ pending' = Append(pending,
                                 SessionRow(Top.map, _app_started_time[Top.idx].app,
                                            _app_started_time[Top.idx].start, Top.now))
            /\ handlers' = SetTop([Top EXCEPT !.pc = "commit"])
            /\ UNCHANGED <<exitStatus, raised>>
       ELSE \* line 125: KeyError
            RaisedInHandler(LookupCall) /\ UNCHANGED <<pending, handlers>>
    /\ UNCHANGED <<args, pc, loopVars, tables, appsRows, committed,
                   connOpen, clock, clockSteps, signals>>

\* Line 56 raises sqlite3.Error inside _exit.
ExitInsertRaises ==
    /\ HandlerRuns /\ Top.pc = "insert"
    /\ _app_started_time[Top.idx].app \in DOMAIN Top.map
    /\ RaisedInHandler(InsertExecuteCall)
    /\ UNCHANGED <<args, pc, loopVars, dbVars, clock, clockSteps, handlers, signals>>

\* Line 57 raises sqlite3.Error inside _exit: the open transaction is
\* rolled back when the process ends.
ExitCommitRaises ==
    /\ HandlerRuns /\ Top.pc = "commit"
    /\ pending' = <<>>
    /\ RaisedInHandler(InsertCommitCall)
    /\ UNCHANGED <<args, pc, loopVars, tables, appsRows, committed, connOpen,
                   clock, clockSteps, handlers, signals>>

\* Line 57 (and the empty commit of line 132).
ExitCommit ==
    /\ HandlerRuns /\ Top.pc = "commit"
    /\ committed' = committed \o pending
    /\ pending' = <<>>
    /\ handlers' = SetTop([Top EXCEPT !.idx = @ + 1, !.pc = "iter"])
    /\ UNCHANGED <<args, pc, loopVars, tables, appsRows, connOpen,
                   clock, clockSteps, signals, exitStatus, raised>>

\* Lines 135-136: _cursor_to_close.connection.close(); an open transaction
\* is rolled back.
ExitClose ==
    /\ HandlerRuns /\ Top.pc = "close"
    /\ connOpen' = FALSE
    /\ pending' = <<>>
    /\ handlers' = SetTop([Top EXCEPT !.pc = "exit"])
    /\ UNCHANGED <<args, pc, loopVars, tables, appsRows, committed,
                   clock, clockSteps, signals, exitStatus, raised>>

\* _exit without its sys.exit(0): the handler returns and the interrupted
\* code resumes.
ExitSysExitReturns ==
    /\ HandlerRuns /\ Top.pc = "exit"
    /\ handlers' = SubSeq(handlers, 1, Len(handlers) - 1)
    /\ UNCHANGED <<args, pc, loopVars, dbVars, clock, clockSteps, signals,
                   exitStatus, raised>>

\* Line 138: sys.exit(0); SystemExit unwinds every frame below.
ExitSysExit ==
    /\ HandlerRuns /\ Top.pc = "exit"
    /\ exitStatus' = 0
    /\ UNCHANGED <<args, pc, loopVars, dbVars, clock, clockSteps, handlers, signals,
                   raised>>

(* --------------------------- specification ----------------------------- *)

\* A step of the main program, of the handler or of the clock.
Step ==
    \/ ClearApps \/ ClearTimeTracking \/ Report \/ OneShotExit
    \/ CreateApps \/ CreateTimeTracking \/ PopulateApps \/ GetMapping
    \/ Capture \/ Observe \/ ObserveRaises
    \/ JustStarted \/ StillRunning \/ StillNotRunning
    \/ StoppedInsert \/ StoppedInsertRaises \/ StoppedCommit \/ StoppedCommitRaises
    \/ StoppedDelete
    \/ Sleep
    \/ ClockSetBack
    \/ ExitMapping \/ ExitNextItem \/ ExitInsert \/ ExitInsertRaises
    \/ ExitCommit \/ ExitCommitRaises \/ ExitClose
    \/ ExitSysExit

Next == Step \/ Signal

Spec == Init /\ [][Next]_vars

\* The same program with one more signal: a signal can find _exit running.
NextRepeatedSignals == Step \/ RepeatedSignal

SpecRepeatedSignals == Init /\ [][NextRepeatedSignals]_vars

(* ------------------- vocabulary of the properties ---------------------- *)

\* ROWID of an app in the registry, as get_app_name_id_mapping gives it;
\* None when the app has no row.
AppId(a) ==
    IF \E i \in DOMAIN appsRows : appsRows[i] = a
    THEN CHOOSE i \in DOMAIN appsRows : appsRows[i] = a
    ELSE None

RowsOf(a, rows) == SelectSeq(rows, LAMBDA r : r.app_id = AppId(a))

\* Observations of app a that the poll loop has acted on: all of them, but
\* the latest while its iteration still stands before the case split.
Processed(a) ==
    IF pc = "match" /\ app = a THEN Len(observed[a]) - 1 ELSE Len(observed[a])

\* The runs of app a that the poll loop saw begin and end: <<i, j>> when the
\* observations i..j-1 are "running", j is "not running", and observation
\* i-1 (if any) is "not running".
CompletedRuns(a) ==
    LET ends == {j \in 2..Processed(a) :
                    ~observed[a][j].running /\ observed[a][j - 1].running}
        begin(j) == CHOOSE i \in 1..(j - 1) :
                        /\ \A m \in i..(j - 1) : observed[a][m].running
                        /\ i = 1 \/ ~observed[a][i - 1].running
    IN {<<begin(j), j>> : j \in ends}

EverObservedRunning(a) == \E i \in DOMAIN observed[a] : observed[a][i].running

\* Rows k of `rows` that hold the session of app a from `start` to `end`.
SessionsAt(rows, a, start, end) ==
    {k \in DOMAIN rows :
        /\ rows[k].app_id = AppId(a)
        /\ rows[k].start_time = encode_time(start)
        /\ rows[k].end_time = encode_time(end)}

\* App a has a start recorded in LiveState, told from what the poll loop
\* has done: its last observation acted on was "running", or the loop is
\* between the insert and the del of its closing observation.
RecordedRunning(a) ==
    \/ Processed(a) >= 1 /\ observed[a][Processed(a)].running
    \/ app = a /\ pc \in {"insert_commit", "delete"}

\* The rows of app a that the poll loop did not write: the handler's.
FlushRowsOf(a, rows) ==
    SubSeq(RowsOf(a, rows), Cardinality(CompletedRuns(a)) + 1, Len(RowsOf(a, rows)))

\* A write to the store raised and ended the process (SQLiteTable.insert).
WriteFailed == raised \in {InsertExecuteCall, InsertCommitCall}

\* Elapsed clock units of a row, from its stored timestamps.
Elapsed(row) == decode_time(row.end_time) - decode_time(row.start_time)

(* ------------------------------- C1 ------------------------------------ *)

C8_NoSpuriousSessions ==
    \A k \in DOMAIN Appended :
        \E a \in Apps : Appended[k].app_id = AppId(a) /\ EverObservedRunning(a)

\* After a shutdown flush that wrote a row for another app, an app that was
\* observed on several ticks and never running.
C8_Witness ==
    /\ exitStatus = 0 /\ ~connOpen
    /\ committed # <<>>
    /\ \E a \in Apps :
          /\ Len(observed[a]) >= 2
          /\ ~EverObservedRunning(a)
          /\ RowsOf(a, committed) = <<>>

(* ------------------------------- C2 ------------------------------------ *)

\* C2 (no overlap): with at most one signal delivered, the rows of one app,
\* in the order they were appended, never overlap (a row starts no earlier than the row before it ends) and
\* are strictly ordered by start_time.
C2_NoOverlap ==
    signals <= 1 =>
    \A a \in Apps :
        LET rows == RowsOf(a, Appended) IN
        \A k \in 1..(Len(rows) - 1) :
            /\ decode_time(rows[k].end_time) <= decode_time(rows[k + 1].start_time)
            /\ decode_time(rows[k].start_time) < decode_time(rows[k + 1].start_time)

(* ------------------------------- C3 ------------------------------------ *)

\* C3 (no double counting): wherever the one signal arrives, the committed
\* rows never hold two rows of the same app with the same start_time.
C3_NoDoubleCounting ==
    signals <= 1 =>
    \A k, l \in DOMAIN committed :
        k # l => ~(/\ committed[k].app_id = committed[l].app_id
                   /\ committed[k].start_time = committed[l].start_time)

(* ------------------------------- C4 ------------------------------------ *)

\* C4 (flush correctness): when the handler has gone through the open
\* entities, it has appended one row for every app recorded as running and
\* none for any other, all its rows carry one end_time, and LiveState is
\* empty.
C4_FlushCorrectness ==
    (Len(handlers) = 1 /\ Top.pc \in {"close", "exit"}) =>
        /\ \A a \in Apps :
              Len(FlushRowsOf(a, Appended)) = IF RecordedRunning(a) THEN 1 ELSE 0
        /\ \A a, b \in Apps :
              \A k \in DOMAIN FlushRowsOf(a, Appended), l \in DOMAIN FlushRowsOf(b, Appended) :
                  FlushRowsOf(a, Appended)[k].end_time = FlushRowsOf(b, Appended)[l].end_time
        /\ _app_started_time = <<>>

(* ------------------------------- C5 ------------------------------------ *)

\* C5 (shutdown ordering): once the connection is closed, every app that was
\* open has its closing row committed and nothing is or will be appended;
\* and a process that ends after a signal has closed the connection.
C5_ShutdownOrdering ==
    /\ ~connOpen =>
          /\ \A a \in Apps : RecordedRunning(a) => FlushRowsOf(a, committed) # <<>>
          /\ pending = <<>>
          /\ handlers # <<>> /\ Top.pc \notin {"iter", "insert", "commit", "close"}
    /\ (signals >= 1 /\ exitStatus # None) => ~connOpen

(* ------------------------------- C6 ------------------------------------ *)

\* Frames of _exit that are flushing or have flushed an open entity.
FlushingFrames ==
    {i \in DOMAIN handlers : handlers[i].idx > 1 \/ handlers[i].pc \in {"insert", "commit"}}

\* C6 (the flusher runs at most once; under SpecRepeatedSignals, where a
\* second signal can arrive): however many signals arrive, at most
\* one run of the handler flushes open entities and no app gets more than
\* one row from the handler.
C6_FlushAtMostOnce ==
    /\ Cardinality(FlushingFrames) <= 1
    /\ \A a \in Apps : Len(FlushRowsOf(a, Appended)) <= 1

(* ------------------------------- C7 ------------------------------------ *)

\* C7 (cancellation ends in a successful exit): a process that has received
\* a signal ends with exit status 0, the open entities flushed.
C7_CancelExitsZero ==
    (signals >= 1 /\ exitStatus # None) =>
        /\ exitStatus = 0
        /\ \A a \in Apps : RecordedRunning(a) => FlushRowsOf(a, committed) # <<>>

(* ------------------------------- C9 ------------------------------------ *)

\* C9 (duration is total elapsed whole seconds): every row whose end is not
\* before its start has seconds = floor(end_time - start_time), intervals of
\* 24 hours or more included.
C9_DurationIsElapsedSeconds ==
    \A k \in DOMAIN Appended :
        Elapsed(Appended[k]) >= 0 =>
            Appended[k].seconds = Elapsed(Appended[k]) \div UnitsPerSecond

(* ------------------------------- C10 ----------------------------------- *)

\* C10 (clock-anomaly clamp): a run closed by the poll loop at a `now`
\* earlier than its recorded start still gets its row, and every row whose
\* end is earlier than its start, from the loop or from the handler, has
\* seconds = 0.
C10_ClockAnomalyClamp ==
    /\ \A a \in Apps : \A r \in CompletedRuns(a) :
          observed[a][r[2]].now < observed[a][r[1]].now =>
              \E k \in SessionsAt(Appended, a, observed[a][r[1]].now,
                                  observed[a][r[2]].now) : Appended[k].seconds = 0
    /\ \A k \in DOMAIN Appended :
          Elapsed(Appended[k]) < 0 => Appended[k].seconds = 0

(* ------------------------------- C11 ----------------------------------- *)

\* SUM(seconds) over the rows at the positions ks.
RECURSIVE SumSeconds(_, _)
SumSeconds(rows, ks) ==
    IF ks = {}
    THEN 0
    ELSE LET k == CHOOSE k \in ks : TRUE
         IN rows[k].seconds + SumSeconds(rows, ks \ {k})

\* get_app_time_sum with the ON clause lost: every row joins every app.
get_app_time_sum_without_on(apps, rows) ==
    LET joined == (DOMAIN rows) \X (DOMAIN apps)
        names == {apps[p[2]] : p \in joined}
    IN [name \in names |->
           SumSeconds(rows, {p[1] : p \in {q \in joined : apps[q[2]] = name}})]

\* TimeTrackingTable.get_app_time_sum (lines 78-82):
\*   SELECT apps.name, SUM(seconds) FROM time_tracking
\*   JOIN apps ON time_tracking.app_id = apps.ROWID GROUP BY apps.name
\* over the rows `apps` of the registry and `rows` of time_tracking: the
\* inner join keeps row k when the registry has a row whose ROWID is its
\* app_id, the rows kept are grouped by the name of that registry row, and
\* a name that no row is joined to has no group.
get_app_time_sum(apps, rows) ==
    LET joined == {k \in DOMAIN rows : rows[k].app_id \in DOMAIN apps}
        names == {apps[rows[k].app_id] : k \in joined}
    IN [name \in names |->
           SumSeconds(rows, {k \in joined : apps[rows[k].app_id] = name})]

\* The seconds of a sequence of rows, added up in order.
RECURSIVE TotalSeconds(_)
TotalSeconds(rows) ==
    IF rows = <<>> THEN 0 ELSE Head(rows).seconds + TotalSeconds(Tail(rows))

\* C11 (aggregation): whatever rows have been committed, the sum query gives
\* every tracked app that has at least one committed row the sum of the
\* seconds of its rows, and has no entry for an app without a committed row.
C11_Aggregation ==
    {APPS_TABLE_NAME, TIME_TRACKING_TABLE_NAME} \subseteq tables =>
    LET result == get_app_time_sum(appsRows, committed)
    IN \A a \in Apps :
          LET persisted == RowsOf(a, committed)
          IN IF persisted = <<>>
             THEN a \notin DOMAIN result
             ELSE a \in DOMAIN result /\ result[a] = TotalSeconds(persisted)

\* Two committed rows of one app that add up to a minute or more, and an
\* app without a row that the result leaves out.
C11_Witness ==
    \E a, b \in Apps :
        LET result == get_app_time_sum(appsRows, committed)
        IN /\ Len(RowsOf(a, committed)) >= 2
           /\ result[a] >= DEFAULT_SLEEP_TIME
           /\ RowsOf(b, committed) = <<>>
           /\ b \notin DOMAIN result

(* ------------------------------- C12 ----------------------------------- *)

\* C12 (a storage write failure is fatal): the step in which the execute or
\* the commit of an insert raises ends the process with exit status 1
\* without a new observation or tick, and no step of the program follows a
\* failed write.
C12_WriteFailureIsFatal ==
    [][/\ ~WriteFailed
       /\ WriteFailed' =>
             /\ exitStatus' = 1
             /\ observed' = observed
             /\ tick' = tick
             /\ appIdx' = appIdx
             /\ committed' = committed]_vars

\* The poll loop's insert failed on the second tick or later while the run
\* of another app was still open.
C12_Witness ==
    /\ WriteFailed
    /\ handlers = <<>>
    /\ exitStatus = 1
    /\ tick >= 1
    /\ Len(_app_started_time) = Len(TRACKED_APPS)

(* ------------------------------- C13 ----------------------------------- *)

\* C13 (per-entity isolation of presence failures): no failure of the
\* presence query of one app ends the process; the app counts as not
\* running for the tick and the loop goes on to the next app.  A query that
\* fails by a non-zero exit status of pidof is "not running" by pid_of
\* (line 93, action Observe); the formula is about the query that raises.
C13_PresenceFailureIsolated ==
    raised # PidOfCall

(* ------------------------------- C14 ----------------------------------- *)

\* The positions of the main program inside `while True` (lines 193-234).
PollLoopPcs == {"capture", "observe", "match", "insert_commit", "delete", "sleep"}

\* C14 (one-shot modes never track): when a one-shot option is given the
\* program never reaches the poll loop, makes no presence observation,
\* records no start in _app_started_time and appends no row.
C14_OneShotNeverTracks ==
    OneShotRequested =>
        /\ pc \notin PollLoopPcs
        /\ \A a \in Apps : observed[a] = <<>>
        /\ _app_started_time = <<>>
        /\ Appended = <<>>

(* ------------------------------- C15 ----------------------------------- *)

\* The answer of the most recent presence observation of app a.
LastObservedRunning(a) ==
    /\ observed[a] # <<>>
    /\ observed[a][Len(observed[a])].running

\* C15 (LiveState invariant): in every state in which a signal can start
\* the handler, that is in every state of the running process, each app
\* with a start recorded in _app_started_time was running at its most
\* recent presence observation.
C15_LiveStateInvariant ==
    Running =>
        \A a \in DictKeys(_app_started_time) : LastObservedRunning(a)

(* ------------------------------- C16 ----------------------------------- *)

\* The poll loop is in the branch of lines 216-230 for app a: its latest
\* observation of a was "not running" and a start of a was recorded.
Closing(a) ==
    /\ handlers = <<>>
    /\ app = a
    /\ pc \in {"match", "insert_commit", "delete"}
    /\ ~LastObservedRunning(a)

\* C16 (frame of an open session): in every step, an app that has a recorded
\* start S either keeps exactly S or loses it in the poll loop's branch for
\* a "not running" observation of that same app; and a step of the poll
\* loop appends a row for that app only in that branch.  So a "running"
\* observation of any app and any observation of another app change neither
\* S nor the rows of the app.
C16_OpenStartUnchanged ==
    [][\A a \in DictKeys(_app_started_time) :
          /\ a \in DictKeys(_app_started_time') =>
                DictGet(_app_started_time', a) = DictGet(_app_started_time, a)
          /\ a \notin DictKeys(_app_started_time') => Closing(a)
          /\ handlers = <<>> /\ RowsOf(a, Appended') # RowsOf(a, Appended) =>
                Closing(a)]_vars

\* An app whose recorded start is still the timestamp of its first
\* observation after it was seen running again, while another app has been
\* through a whole run in the meantime.
C16_Witness ==
    \E a, b \in Apps :
        /\ a # b
        /\ Processed(a) >= 2
        /\ observed[a][2].running
        /\ DictGet(_app_started_time, a) = observed[a][1].now
        /\ CompletedRuns(b) # {}
        /\ RowsOf(b, committed) # <<>>

(* ------------------------------- C17 ----------------------------------- *)

\* C17 (no new tick after cancellation): in every step taken after a signal
\* has been delivered, the main program stays where it was interrupted: no
\* presence observation, no new tick, no change of _app_started_time; and
\* a row is added to the store only by the insert of the handler.
C17_NoTickAfterSignal ==
    [][signals >= 1 =>
          /\ UNCHANGED <<pc, tick, appIdx, now, observed, _app_started_time>>
          /\ Len(Appended') > Len(Appended) =>
                HandlerRuns /\ Top.pc = "insert"]_vars

\* A signal that arrived in the middle of a tick, before the second app was
\* observed: the handler has flushed a row and exited, and the observation
\* was never made.
C17_Witness ==
    /\ signals = 1
    /\ exitStatus = 0
    /\ pc = "observe"
    /\ appIdx = Len(TRACKED_APPS)
    /\ Len(observed[app]) = tick
    /\ committed # <<>>

(* ------------------------------- C18 ----------------------------------- *)

\* App a was seen to start on tick i: running at observation i and not at
\* observation i-1, if there was one.
StartedAt(a, i) ==
    /\ i \in DOMAIN observed[a]
    /\ observed[a][i].running
    /\ i = 1 \/ ~observed[a][i - 1].running

\* App a was seen to stop on tick i.
StoppedAt(a, i) ==
    /\ i \in DOMAIN observed[a]
    /\ i > 1
    /\ ~observed[a][i].running
    /\ observed[a][i - 1].running

\* a comes before b in TRACKED_APPS.
ListedBefore(a, b) ==
    \E i, j \in DOMAIN TRACKED_APPS :
        i < j /\ TRACKED_APPS[i] = a /\ TRACKED_APPS[j] = b

\* C18 as the spec states it (one timestamp per tick): two apps that start,
\* or stop, on the same tick are given the same `now`.
C18_OneTimestampPerTick ==
    \A a, b \in Apps : \A i \in 1..MaxObservations :
        \/ StartedAt(a, i) /\ StartedAt(b, i)
        \/ StoppedAt(a, i) /\ StoppedAt(b, i)
        => observed[a][i].now = observed[b][i].now

\* C18 as the code has it (one timestamp per app per tick): `now` is read at
\* the start of each iteration of `for app in TRACKED_APPS` and used for
\* that app alone, so on one tick the `now` of an app listed earlier is
\* strictly before the `now` of an app listed later, as long as the clock
\* has not been set back; and a start recorded on tick i is the `now` of
\* the app's own iteration.
C18_OneTimestampPerApp ==
    \A a \in Apps :
        /\ clockSteps = 0 =>
              \A b \in Apps : \A i \in (DOMAIN observed[a]) \cap (DOMAIN observed[b]) :
                  ListedBefore(a, b) => observed[a][i].now < observed[b][i].now
        /\ LET i == Len(observed[a])
           IN StartedAt(a, i) /\ i = Processed(a)
              => DictGet(_app_started_time, a) = observed[a][i].now

\* Both apps started on the first tick and their recorded starts differ,
\* the start of the app listed first being the earlier one.
C18_Witness ==
    \E a, b \in Apps :
        /\ ListedBefore(a, b)
        /\ StartedAt(a, 1) /\ StartedAt(b, 1)
        /\ DictGet(_app_started_time, a) # None
        /\ DictGet(_app_started_time, b) # None
        /\ DictGet(_app_started_time, a) < DictGet(_app_started_time, b)

(* ------------------------------- C19 ----------------------------------- *)

\* C19 (no negative duration is persisted): every row of the store, written
\* by the poll loop or by the handler, has seconds >= 0, also when the clock
\* was set back between the recorded start and the `now` of the row.
C19_NoNegativeDuration ==
    \A k \in DOMAIN Appended : Appended[k].seconds >= 0

\* A committed row whose end_time is before its start_time.
C19_Witness ==
    \E k \in DOMAIN committed :
        /\ Elapsed(committed[k]) < 0
        /\ committed[k].seconds >= 0

(* ------------------------------- C20 ----------------------------------- *)

\* C20 (every open app has an id): in tracking mode every key of
\* _app_started_time is one of TRACKED_APPS, has a row in the registry, and
\* is a key of the mapping the poll loop read at startup and of the mapping
\* every running handler has read; so neither app_name_id_mapping[app]
\* (line 223) nor app_name_id_map[app] (line 125) raises KeyError.
C20_OpenAppsHaveIds ==
    /\ raised # LookupCall
    /\ \A a \in DictKeys(_app_started_time) :
          /\ a \in Apps
          /\ AppId(a) # None
          /\ a \in DOMAIN app_name_id_mapping
          /\ \A i \in DOMAIN handlers :
                handlers[i].pc # "map" => a \in DOMAIN handlers[i].map

\* The poll loop has appended the row of one run, both apps are open again,
\* and the handler has looked up the id of the second of them for its row.
C20_Witness ==
    /\ DictKeys(_app_started_time) = Apps
    /\ handlers # <<>>
    /\ Top.pc = "commit"
    /\ Top.idx = Len(TRACKED_APPS)
    /\ Len(committed) >= 2
    /\ \E a \in Apps : CompletedRuns(a) # {}

====
